---- MODULE Spec2Model ----
(***************************************************************************)
(* Model of watch.py: an X11 client that tracks the active window and its  *)
(* title and calls handle_change when the title changes.                   *)
(*                                                                         *)
(* The X server, the window manager and the process table are the          *)
(* environment: windows, their properties, the root window's               *)
(* _NET_ACTIVE_WINDOW property and the set of existing pids.  The program  *)
(* is the module-level state (last_seen, prev_seen) and the functions of   *)
(* watch.py; each handler runs as one atomic step.                         *)
(***************************************************************************)
EXTENDS Integers, Sequences, FiniteSets, TLC

VARIABLES
    live,       \* ids of the windows that exist on the server
    props,      \* props[w][atom]: the property values of window w
    active,     \* root window's _NET_ACTIVE_WINDOW value[0]
    procs,      \* pids that exist (what psutil.pid_exists answers)
    mask,       \* windows on which this client selected PropertyChangeMask
    dicts,      \* heap of dict objects: object id -> dict
    last_seen,  \* the module-level name last_seen: an object id
    prev_seen,  \* the module-level name prev_seen: an object id
    pc,         \* "main" before priming, "loop" in the event loop, "dead"
    event,      \* the event the last step handled (NoEvent otherwise)
    calls,      \* the calls made by the last step, in order, with results
    raised,     \* the exception that escaped the last step, or "none"
    changes,    \* number of environment changes so far (capped)
    repid       \* windows whose _NET_WM_PID was set or deleted since the start

vars == <<live, props, active, procs, mask, dicts, last_seen, prev_seen,
          pc, event, calls, raised, changes, repid>>

----------------------------------------------------------------------------
(* Bounds of the model *)

\* environment changes (focus moves, property changes, destructions, exits)
MaxChanges == 3

\* window ids on the server; 0 in _NET_ACTIVE_WINDOW means "no window"
Windows == {1, 2}

\* pids that appear in _NET_WM_PID
Pids == {100, 200}

----------------------------------------------------------------------------
(* Python values: None, int, str, bytes and the array python-xlib returns  *)
(* for 32-bit properties                                                   *)

None == [t |-> "NoneType"]
PyInt(n) == [t |-> "int", v |-> n]
PyStr(s) == [t |-> "str", v |-> s]
PyBytes(b) == [t |-> "bytes", v |-> b]
PyArray(a) == [t |-> "array", v |-> a]

\* Python == on the values above: values of different types are unequal
PyEq(a, b) == a.t = b.t /\ (a.t = "NoneType" \/ a.v = b.v)

\* Python truth value of a window id (None and 0 are false)
Truthy(x) == x.t = "int" /\ x.v # 0

----------------------------------------------------------------------------
(* Text.  A str is written as a TLA+ string in which a character outside   *)
(* ASCII is spelled "[U+00XX]".                                            *)

\* the characters of the byte alphabet of the model, by code point
Latin1Char == (69 :> "E") @@ (100 :> "d") @@ (66 :> "B") @@ (114 :> "r")
              @@ (195 :> "[U+00C3]") @@ (169 :> "[U+00A9]")

\* bytes.decode('latin1', 'replace'): one character per byte, never fails
RECURSIVE Latin1Decode(_)
Latin1Decode(b) ==
    IF b = <<>> THEN "" ELSE Latin1Char[Head(b)] \o Latin1Decode(Tail(b))

\* the character U+00C0 + n, for the two-byte UTF-8 sequences 0xC3 0x80+n
Utf8Char == (41 :> "[U+00E9]")

\* bytes.decode('utf-8') of a well-formed sequence over the byte alphabet
RECURSIVE Utf8Decode(_)
Utf8Decode(b) ==
    IF b = <<>> THEN ""
    ELSE IF Head(b) < 128 THEN Latin1Char[Head(b)] \o Utf8Decode(Tail(b))
    ELSE Utf8Char[b[2] - 128] \o Utf8Decode(Tail(Tail(b)))

\* "{} (XID: {})".format(title, id)
FormatXid(title, id) == title \o " (XID: " \o ToString(id) \o ")"

----------------------------------------------------------------------------
(* The environment: what the X server answers                             *)

NET_ACTIVE_WINDOW == "_NET_ACTIVE_WINDOW"
NET_WM_NAME == "_NET_WM_NAME"
WM_NAME == "WM_NAME"
WM_PID == "_NET_WM_PID"
OtherAtom == "_NET_WM_STATE"

\* a property that is not set on the window
Absent == [k |-> "absent"]
\* a name property whose read raises UnicodeDecodeError in the library
Undecodable == [k |-> "undecodable"]
\* a property that is set: the reply's .value
Value(x) == [k |-> "value", value |-> x]

\* values of _NET_WM_NAME: text already decoded by the library, or raw bytes
NetNames == {Absent, Undecodable, Value(PyStr("Editor")), Value(PyStr("Browser")),
             Value(PyBytes(<<69, 100>>)), Value(PyBytes(<<195, 169>>))}
\* values of WM_NAME: raw bytes in a legacy encoding
WmNames == {Absent, Value(PyBytes(<<69, 100>>)), Value(PyBytes(<<66, 114>>))}
\* values of _NET_WM_PID: a one-element array of CARDINAL
PidValues == {Absent} \cup {Value(PyArray(<<p>>)) : p \in Pids}

PropValues(atom) ==
    CASE atom = NET_WM_NAME -> NetNames
      [] atom = WM_NAME -> WmNames
      [] atom = WM_PID -> PidValues

\* disp.create_resource_object('window', id), taken to raise XError exactly
\* when the window does not exist
WindowExists(id) == id \in live

\* window.get_full_property(atom, 0): "raise", None or the reply
get_full_property(w, atom) == props[w][atom]

\* psutil.pid_exists(pid) for an int pid
pid_exists(pid) == pid \in procs

----------------------------------------------------------------------------
(* The program.  A function of watch.py is an operator from the program    *)
(* state m = [dicts, last_seen, prev_seen, mask, calls] to                 *)
(* [m: the state it leaves, ret: what it returns, exc: what it raises].    *)

\* the dict literal of line 33
EmptyDict == [xid |-> None, title |-> None, pid |-> None]

\* a live window object of python-xlib
Handle(id) == [t |-> "Window", id |-> id]

Return(m, ret) == [m |-> m, ret |-> ret, exc |-> "none"]
Raise(m, exc) == [m |-> m, ret |-> None, exc |-> exc]
Called(m, call) == [m EXCEPT !.calls = Append(@, call)]

\* "with window_obj(win_id) as wobj:" is entered, and left
Entered(m, wobj) == Called(m, [fn |-> "with", wobj |-> wobj])
Left(m, wobj) == Called(m, [fn |-> "exit", wobj |-> wobj])

\* a protocol request made on the handle wobj; none when wobj is None
Requested(m, wobj, op) ==
    IF wobj = None THEN m
    ELSE Called(m, [fn |-> "request", op |-> op, wobj |-> wobj])

\* a guard that does not notice that the window is gone
window_obj_unchecked(win_id) ==
    IF Truthy(win_id) THEN Handle(win_id.v) ELSE None

\* with window_obj(win_id) as w: the handle, or None
window_obj(win_id) ==
    IF Truthy(win_id) /\ WindowExists(win_id.v) THEN Handle(win_id.v) ELSE None

\* root.get_full_property(NET_ACTIVE_WINDOW, AnyPropertyType).value[0]
ReadActiveWindow == PyInt(active)

\* a tracker that takes "no window" (0) for no change
FocusChangedUnlessZero(win_id, stored) == Truthy(win_id) /\ ~PyEq(win_id, stored)

\* a tracker that reports every active-window event as a focus change
FocusChangedAlways(win_id, stored) == TRUE

\* line 54: win_id != last_seen['xid']
FocusChanged(win_id, stored) == ~PyEq(win_id, stored)

\* a tracker that leaves the old window subscribed
NoEventMaskNot(selected, win) == selected

\* lines 57-58: old_win.change_attributes(event_mask=Xlib.X.NoEventMask)
NoEventMask(selected, win) ==
    IF win # None THEN selected \ {win.id} ELSE selected

\* lines 62-63: new_win.change_attributes(event_mask=Xlib.X.PropertyChangeMask)
PropertyChangeMask(selected, win) ==
    IF win # None THEN selected \cup {win.id} ELSE selected

\* a tracker that forgets to store the id it read
StoreIdNot(m, win_id) == m

\* line 60: last_seen['xid'] = win_id
StoreId(m, win_id) == [m EXCEPT !.dicts[m.last_seen].xid = win_id]

get_active_window(m) ==
    LET win_id == ReadActiveWindow
        stored == m.dicts[m.last_seen].xid
        focus_changed == FocusChanged(win_id, stored)
        old_win == window_obj(stored)
        new_win == window_obj(win_id)
        unsubscribed == NoEventMask(m.mask, old_win)
        subscribed == PropertyChangeMask(unsubscribed, new_win)
        unsub == Left(Requested(Entered(m, old_win), old_win,
                                "change_attributes"), old_win)
        sub == Left(Requested(Entered(StoreId(unsub, win_id), new_win), new_win,
                              "change_attributes"), new_win)
        m1 == IF focus_changed
              THEN [sub EXCEPT !.mask = subscribed]
              ELSE m
    IN  Return(Called(m1, [fn |-> "get_active_window", read |-> win_id,
                           stored |-> stored, changed |-> focus_changed]),
               <<win_id, focus_changed>>)

\* the for loop of _get_window_name_inner over the atoms left, with the
\* placeholder assigned so far
RECURSIVE NameLoop(_, _, _)
NameLoop(w, atoms, title) ==
    IF atoms = <<>> THEN PyStr(FormatXid(title, w))
    ELSE LET window_name == get_full_property(w, Head(atoms)) IN
         CASE window_name.k = "undecodable" ->
                  NameLoop(w, Tail(atoms), "<could not decode characters>")
           [] window_name.k = "value" ->
                  IF window_name.value.t = "bytes"
                  THEN PyStr(Latin1Decode(window_name.value.v))
                  ELSE window_name.value
           [] window_name.k = "absent" ->
                  NameLoop(w, Tail(atoms), "<unnamed window>")

NameAtoms == <<NET_WM_NAME, WM_NAME, WM_PID>>

_get_window_name_inner(w) == NameLoop(w, NameAtoms, "")

\* lines 106-108: the body of "if title_changed"
\* wobj.get_full_property(WM_PID, 0) raises AttributeError on a wobj that is
\* None, and so does .value on a reply that is None
StoreTitle(m, wobj, win_title) ==
    LET m1 == [m EXCEPT !.prev_seen = m.last_seen]
        m2 == [m1 EXCEPT !.dicts[m1.last_seen].title = win_title]
        reply == IF wobj = None THEN Absent ELSE get_full_property(wobj.id, WM_PID)
        m3 == Requested(m2, wobj, "get_full_property")
    IN  IF reply.k = "value"
        THEN Return([m3 EXCEPT !.dicts[m3.last_seen].pid = PyInt(reply.value.v[1])],
                    None)
        ELSE Raise(m3, "AttributeError")

\* a resolver that compares an absent window's title, None, like any other
TitleChangedVsNone(wobj, win_title, stored) == ~PyEq(win_title, stored)

\* a resolver that stores title and pid whenever the window resolves
TitleChangedAlways(wobj, win_title, stored) == wobj # None

\* lines 99-103: title_changed
TitleChanged(wobj, win_title, stored) ==
    wobj # None /\ ~PyEq(win_title, stored)

get_window_name(m, win_id) ==
    LET wobj == window_obj(win_id)
        stored == m.dicts[m.last_seen].title
        win_title == IF wobj # None THEN _get_window_name_inner(wobj.id) ELSE None
        title_changed == TitleChanged(wobj, win_title, stored)
        scope == Left(Requested(Entered(m, wobj), wobj, "get_full_property"), wobj)
        r == IF title_changed THEN StoreTitle(scope, wobj, win_title)
             ELSE Return(scope, None)
        call == [fn |-> "get_window_name", win_id |-> win_id, wobj |-> wobj,
                 stored |-> stored, win_title |-> win_title,
                 changed |-> title_changed, exc |-> r.exc]
    IN  IF r.exc = "none"
        THEN Return(Called(r.m, call),
                    <<r.m.dicts[r.m.last_seen].title, title_changed>>)
        ELSE Raise(Called(r.m, call), r.exc)

\* psutil.pid_exists(None) raises TypeError before anything is printed
handle_change(m, new_state, prev_state) ==
    LET pid == m.dicts[prev_state].pid
        closed == ~pid_exists(pid.v)
    IN  IF pid.t = "int"
        THEN Return(Called(m, [fn |-> "handle_change", closed |-> closed,
                               new_state |-> m.dicts[new_state],
                               prev_state |-> m.dicts[prev_state],
                               exc |-> "none"]),
                    None)
        ELSE Raise(Called(m, [fn |-> "handle_change",
                              new_state |-> m.dicts[new_state],
                              prev_state |-> m.dicts[prev_state],
                              exc |-> "TypeError"]),
                   "TypeError")

\* lines 119-123: the calls that accumulate "changed"
Classify(m, ev) ==
    IF ev.atom = NET_ACTIVE_WINDOW
    THEN LET a == get_active_window(m) IN
         IF a.ret[2]
         THEN get_window_name(a.m, a.m.dicts[a.m.last_seen].xid)
         ELSE Return(a.m, <<None, FALSE>>)
    ELSE IF ev.atom \in {NET_WM_NAME, WM_NAME}
    THEN get_window_name(m, m.dicts[m.last_seen].xid)
    ELSE Return(m, <<None, FALSE>>)

\* line 125: "if changed" is reached with the accumulated flag
Tested(m, changed) == Called(m, [fn |-> "if changed", changed |-> changed])

\* a dispatcher that notifies after every property event
handle_xevent_always(m, ev) ==
    IF ev.type # "PropertyNotify" THEN Return(m, None)
    ELSE LET c == Classify(m, ev)
             t == Tested(c.m, c.ret[2])
         IN  IF c.exc # "none" THEN c
             ELSE handle_change(t, t.last_seen, t.prev_seen)

handle_xevent(m, ev) ==
    IF ev.type # "PropertyNotify" THEN Return(m, None)
    ELSE LET c == Classify(m, ev)
             t == Tested(c.m, c.ret[2])
         IN  IF c.exc # "none" THEN c
             ELSE IF c.ret[2] THEN handle_change(t, t.last_seen, t.prev_seen)
             ELSE Return(t, None)

\* lines 138-142: the statements of __main__ before the loop
Priming(m) ==
    LET a == get_active_window(m)
        n == get_window_name(a.m, a.ret[1])
    IN  IF n.exc # "none" THEN n
        ELSE handle_change(n.m, n.m.last_seen, n.m.prev_seen)

----------------------------------------------------------------------------
(* The state machine                                                       *)

NoEvent == [type |-> "none"]

\* what disp.next_event() can deliver
Events == {[type |-> "PropertyNotify", atom |-> a] :
               a \in {NET_ACTIVE_WINDOW, NET_WM_NAME, WM_NAME, WM_PID, OtherAtom}}
          \cup {[type |-> "MappingNotify"]}

Program == [dicts |-> dicts, last_seen |-> last_seen, prev_seen |-> prev_seen,
            mask |-> mask, calls |-> <<>>]

\* the program state after a handler returned or raised r
Becomes(r) ==
    /\ dicts' = r.m.dicts
    /\ last_seen' = r.m.last_seen
    /\ prev_seen' = r.m.prev_seen
    /\ mask' = r.m.mask
    /\ calls' = r.m.calls
    /\ raised' = r.exc
    /\ pc' = IF r.exc = "none" THEN "loop" ELSE "dead"

\* the windows as the scenarios of the specification start them: window 1
\* "Editor" of pid 100, window 2 "Browser" of pid 200
InitialProps ==
    (1 :> (NET_WM_NAME :> Value(PyStr("Editor")) @@ WM_NAME :> Absent
           @@ WM_PID :> Value(PyArray(<<100>>))))
    @@ (2 :> (NET_WM_NAME :> Value(PyStr("Browser")) @@ WM_NAME :> Absent
              @@ WM_PID :> Value(PyArray(<<200>>))))

Init ==
    /\ live = Windows
    /\ props = InitialProps
    /\ active \in {0, 1}
    /\ procs = Pids
    /\ mask = {}
    /\ dicts = [o \in {"d0"} |-> EmptyDict]
    /\ last_seen = "d0"
    /\ prev_seen = "d0"
    /\ pc = "main"
    /\ event = NoEvent
    /\ calls = <<>>
    /\ raised = "none"
    /\ changes = 0
    /\ repid = {}

\* __main__ up to the loop
Main ==
    /\ pc = "main"
    /\ Becomes(Priming(Program))
    /\ event' = NoEvent
    /\ UNCHANGED <<live, props, active, procs, changes, repid>>

\* one iteration of the loop: handle_xevent(disp.next_event())
HandleEvent ==
    /\ pc = "loop"
    /\ \E ev \in Events :
          /\ Becomes(handle_xevent(Program, ev))
          /\ event' = ev
    /\ UNCHANGED <<live, props, active, procs, changes, repid>>

\* an environment change happens between two steps of the program; the
\* record of the last step is dropped
Changed ==
    /\ pc # "dead"
    /\ changes < MaxChanges
    /\ changes' = changes + 1
    /\ event' = NoEvent
    /\ calls' = <<>>
    /\ raised' = "none"
    /\ UNCHANGED <<dicts, last_seen, prev_seen, pc>>

\* the window manager moves the focus (0: to no window)
FocusMoves ==
    /\ Changed
    /\ \E w \in live \cup {0} : w # active /\ active' = w
    /\ UNCHANGED <<live, props, procs, mask, repid>>

\* a client sets or deletes a property of one of its windows
PropertyChanges ==
    /\ Changed
    /\ \E w \in live, atom \in {NET_WM_NAME, WM_NAME, WM_PID} :
          \E v \in PropValues(atom) :
              /\ v # props[w][atom]
              /\ props' = [props EXCEPT ![w][atom] = v]
              /\ repid' = IF atom = WM_PID THEN repid \cup {w} ELSE repid
    /\ UNCHANGED <<live, active, procs, mask>>

\* a window is destroyed; the server forgets the event masks on it
WindowDestroyed ==
    /\ Changed
    /\ \E w \in live : live' = live \ {w} /\ mask' = mask \ {w}
    /\ UNCHANGED <<props, active, procs, repid>>

\* a process exits
ProcessExits ==
    /\ Changed
    /\ \E p \in procs : procs' = procs \ {p}
    /\ UNCHANGED <<live, props, active, mask, repid>>

Next ==
    \/ Main
    \/ HandleEvent
    \/ FocusMoves
    \/ PropertyChanges
    \/ WindowDestroyed
    \/ ProcessExits

Spec == Init /\ [][Next]_vars

----------------------------------------------------------------------------
(* Observations used by the properties                                     *)

\* the current WindowState
Cur == dicts[last_seen]

\* the calls of fn made by the last step
CallsOf(fn) == {c \in {calls[i] : i \in DOMAIN calls} : c.fn = fn}
NumCallsOf(fn) == Cardinality({i \in DOMAIN calls : calls[i].fn = fn})

TrackerCalls == CallsOf("get_active_window")
ResolverCalls == CallsOf("get_window_name")
Notifications == CallsOf("handle_change")

\* the last step handled a PropertyNotify event
PropertyEvent == event.type = "PropertyNotify"

\* no handle can be made for win_id: None, 0 or a window that is gone
HandleAbsent(win_id) == ~Truthy(win_id) \/ ~WindowExists(win_id.v)

----------------------------------------------------------------------------
(* C1: for every property-change event handled, if the stored window id or *)
(* the stored title after the event differs from the one before it, then   *)
(* handle_change was called during the event.                              *)
C1_NotifiedWhenIdOrTitleChanges ==
    [][(PropertyEvent' /\ (Cur'.xid # Cur.xid \/ Cur'.title # Cur.title))
          => Notifications' # {}]_vars

(* C2: whenever an event makes handle_change fire, closed is true exactly  *)
(* when the pid the WindowState held before the event's mutation does not  *)
(* exist.                                                                  *)
C2_ClosedIffPreviousPidGone ==
    [][PropertyEvent' =>
          \A c \in Notifications' :
              c.closed <=> (Cur.pid.t = "int" /\ ~pid_exists(Cur.pid.v))]_vars

(* C3: at every call of handle_change, the previous snapshot holds the     *)
(* title and the pid that the current WindowState held before the change,  *)
(* so that it differs from the current one in title.                       *)
C3_PreviousHoldsOldValues ==
    [][\A c \in Notifications' :
           /\ c.prev_state.title = Cur.title
           /\ c.prev_state.pid = Cur.pid
           /\ c.prev_state.title # c.new_state.title]_vars

(* C4: each call of get_active_window reports changed exactly when the id  *)
(* read from the root window differs from the id stored before the call,   *)
(* and after the call the stored id is the id read.                        *)
C4_TrackerChangedIffIdDiffers ==
    [][\A c \in TrackerCalls' :
           /\ c.changed <=> ~PyEq(PyInt(active), Cur.xid)
           /\ PyEq(Cur'.xid, PyInt(active))]_vars

\* an active-window event found the id that was already stored, and the
\* tracker reported no change
C4_Witness ==
    /\ PropertyEvent /\ event.atom = NET_ACTIVE_WINDOW
    /\ \E c \in TrackerCalls : ~c.changed /\ PyEq(c.read, c.stored)
    /\ PyEq(Cur.xid, PyInt(active))

\* what the claim lets a title be, for window w
AllowedTitles(w) ==
    LET net == props[w][NET_WM_NAME]
        wm == props[w][WM_NAME]
        placeholders == {"<could not decode characters>", "<unnamed window>"}
    IN  {net.value : x \in IF net.k = "value" /\ net.value.t = "str"
                           THEN {1} ELSE {}}
        \cup {PyStr(Utf8Decode(net.value.v)) :
                  x \in IF net.k = "value" /\ net.value.t = "bytes"
                        THEN {1} ELSE {}}
        \cup {PyStr(Latin1Decode(wm.value.v)) : x \in IF wm.k = "value"
                                                      THEN {1} ELSE {}}
        \cup {PyStr(p) : p \in placeholders}
        \cup {PyStr(FormatXid(p, w)) : p \in placeholders}

(* C5: whenever the window handle resolves, the title the resolver         *)
(* produces is a non-empty string that is the UTF-8 name, the decoded      *)
(* legacy name or one of the two placeholders (bare or with the XID), and  *)
(* is not the value of the process-id attribute.                           *)
C5_TitleIsNameOrPlaceholder ==
    \A c \in ResolverCalls :
        c.wobj # None =>
            /\ c.win_title.t = "str"
            /\ c.win_title.v # ""
            /\ c.win_title \in AllowedTitles(c.wobj.id)
            /\ props[c.wobj.id][WM_PID].k = "value"
                   => c.win_title # props[c.wobj.id][WM_PID].value

(* C6: no exception escapes the handling of an event.                      *)
C6_NoExceptionEscapesEvent ==
    event # NoEvent => raised = "none" /\ pc = "loop"

(* C7: when no handle can be made for the id given to get_window_name      *)
(* (None, 0 or a window that no longer exists), the call completes without *)
(* error and the stored pid is left as it was.                             *)
C7_AbsentHandleLeavesPid ==
    [][\A c \in ResolverCalls' :
           HandleAbsent(c.win_id) => c.exc = "none" /\ Cur'.pid = Cur.pid]_vars

\* the resolver was called for a window that is gone while a pid was stored
C7_Witness ==
    \E c \in ResolverCalls :
        /\ Truthy(c.win_id) /\ ~WindowExists(c.win_id.v)
        /\ c.exc = "none"
        /\ Cur.pid.t = "int"

\* the last step was an active-window event that found the focus on a window
\* that was destroyed before the event was handled
FocusMovedToGoneWindow ==
    /\ PropertyEvent /\ event.atom = NET_ACTIVE_WINDOW
    /\ \E c \in TrackerCalls :
          c.changed /\ Truthy(c.read) /\ ~WindowExists(c.read.v)

(* C8 as claimed: when focus changes to a window that is destroyed before  *)
(* its title can be read, the resolver's flag is true exactly when a title *)
(* was stored before.                                                      *)
C8_FlagComparesStoredTitleWithNone ==
    FocusMovedToGoneWindow =>
        \A c \in ResolverCalls : c.changed <=> ~PyEq(c.stored, None)

(* C8 as amended: when focus changes to a window that is destroyed before  *)
(* its title can be read, the resolver's flag is false whether or not a    *)
(* title was stored before, and the stored title is left as it was.        *)
C8_FlagFalseOnGoneWindow ==
    FocusMovedToGoneWindow =>
        /\ ResolverCalls # {}
        /\ \A c \in ResolverCalls : ~c.changed /\ Cur.title = c.stored

\* focus moved to a destroyed window while a title was stored
C8_Witness ==
    /\ FocusMovedToGoneWindow
    /\ \E c \in ResolverCalls : c.wobj = None /\ c.stored.t = "str"

\* the events the claim lists as leaving the pid alone
QuietEvent ==
    \/ event.type = "MappingNotify"
    \/ PropertyEvent /\ event.atom \in {WM_PID, OtherAtom}
    \/ PropertyEvent /\ event.atom = NET_ACTIVE_WINDOW
           /\ \A c \in TrackerCalls : ~c.changed
    \/ PropertyEvent /\ event.atom \in {NET_WM_NAME, WM_NAME}
           /\ \A c \in ResolverCalls : ~c.changed

(* C9: the stored pid changes only in a step in which the stored title     *)
(* changed; events of another class, events for other attributes,          *)
(* active-window events with an unchanged id and name events that resolve  *)
(* to the stored title leave the stored pid unchanged.                     *)
C9_PidChangesOnlyWithTitle ==
    [][/\ Cur'.pid # Cur.pid => Cur'.title # Cur.title
       /\ QuietEvent' => Cur'.pid = Cur.pid]_vars

\* a name event resolved to the stored title on a window whose process-id
\* attribute is no longer the stored pid, and the stored pid stayed
C9_Witness ==
    /\ PropertyEvent /\ event.atom \in {NET_WM_NAME, WM_NAME}
    /\ \E c \in ResolverCalls :
          /\ c.wobj # None /\ ~c.changed
          /\ props[c.wobj.id][WM_PID].k = "value"
          /\ props[c.wobj.id][WM_PID].value.v[1] # Cur.pid.v

(* C10: an active-window event that moves focus from window 1 ("Editor",   *)
(* pid 100, alive) to the live window 2, whose title resolves to "Browser" *)
(* and whose pid is 200, calls handle_change exactly once, with closed     *)
(* false and the current state {2, "Browser", 200}.                        *)
C10_ScenarioB ==
    [][(/\ PropertyEvent' /\ event'.atom = NET_ACTIVE_WINDOW
        /\ Cur = [xid |-> PyInt(1), title |-> PyStr("Editor"), pid |-> PyInt(100)]
        /\ pid_exists(100)
        /\ active = 2 /\ WindowExists(2)
        /\ _get_window_name_inner(2) = PyStr("Browser")
        /\ props[2][WM_PID] = Value(PyArray(<<200>>)))
       => /\ NumCallsOf("handle_change")' = 1
          /\ \A c \in Notifications' :
                /\ ~c.closed
                /\ c.new_state = [xid |-> PyInt(2), title |-> PyStr("Browser"),
                                  pid |-> PyInt(200)]]_vars

(* C11: process start makes exactly one call of handle_change before any   *)
(* event is taken, whatever the priming resolution found; when the focus   *)
(* is on window 1 with title "Editor" and pid 100, that call carries the   *)
(* current state {1, "Editor", 100}.                                       *)
C11_PrimingNotifiesOnce ==
    [][(pc = "main" /\ pc' # "main") =>
          /\ NumCallsOf("handle_change")' = 1
          /\ (/\ active = 1 /\ WindowExists(1)
              /\ _get_window_name_inner(1) = PyStr("Editor")
              /\ props[1][WM_PID] = Value(PyArray(<<100>>)))
             => \A c \in Notifications' :
                    c.new_state = [xid |-> PyInt(1), title |-> PyStr("Editor"),
                                   pid |-> PyInt(100)]]_vars

\* the focused window is the stored one, it can be opened, and its title
\* resolves to a string other than the stored title
TitleOfFocusedWindowDiffers ==
    /\ Truthy(Cur.xid) /\ Cur.xid.v = active /\ WindowExists(active)
    /\ _get_window_name_inner(active).t = "str"
    /\ ~PyEq(_get_window_name_inner(active), Cur.title)

(* C12: when a name event is handled while the stored id is the focused    *)
(* window, the window's title resolves to a string other than the stored   *)
(* one and the window's process-id attribute has not changed, then         *)
(* handle_change is called, the stored id and the stored pid are           *)
(* unchanged, the stored title is the new title and no event mask changes. *)
C12_NameEventUpdatesTitleOnly ==
    [][(/\ PropertyEvent' /\ event'.atom \in {NET_WM_NAME, WM_NAME}
        /\ TitleOfFocusedWindowDiffers
        /\ active \notin repid)
       => /\ Notifications' # {}
          /\ Cur'.xid = Cur.xid
          /\ Cur'.pid = Cur.pid
          /\ Cur'.title = _get_window_name_inner(active)
          /\ mask' = mask]_vars

(* C13: in every reachable state the stored title and the stored pid are   *)
(* other than None only if the stored id is other than None.               *)
C13_TitleAndPidOnlyWithId ==
    (Cur.title # None \/ Cur.pid # None) => Cur.xid # None

\* an event was handled and left an id, a title and a pid stored
C13_Witness ==
    /\ PropertyEvent
    /\ Cur.xid.t = "int" /\ Cur.title.t = "str" /\ Cur.pid.t = "int"

\* the handle of the with block that is open at position i of the calls,
\* None when no block is open
RECURSIVE OpenScope(_)
OpenScope(i) ==
    IF i = 0 THEN None
    ELSE IF calls[i].fn = "with" THEN calls[i].wobj
    ELSE IF calls[i].fn = "exit" THEN None
    ELSE OpenScope(i - 1)

(* C14: every protocol request made on a window handle is made while the   *)
(* with block that acquired the handle is open.                            *)
C14_HandleUsedInsideScope ==
    \A i \in DOMAIN calls :
        calls[i].fn = "request" => OpenScope(i) = calls[i].wobj

(* C15: whenever the read of _NET_WM_NAME fails with a decode error, the   *)
(* resolved title is "<could not decode characters> (XID: <id>)", whatever *)
(* the WM_NAME and _NET_WM_PID properties of the window are.               *)
C15_DecodeErrorGivesPlaceholder ==
    \A c \in ResolverCalls :
        (c.wobj # None /\ props[c.wobj.id][NET_WM_NAME] = Undecodable)
            => c.win_title
                   = PyStr(FormatXid("<could not decode characters>", c.wobj.id))

\* the title the fallback chain of the claim gives window w, whose read of
\* _NET_WM_NAME does not fail
ChainTitle(w) ==
    LET net == props[w][NET_WM_NAME]
        wm == props[w][WM_NAME]
    IN  IF net.k = "value"
        THEN IF net.value.t = "bytes" THEN PyStr(Utf8Decode(net.value.v))
             ELSE net.value
        ELSE IF wm.k = "value" THEN PyStr(Latin1Decode(wm.value.v))
        ELSE PyStr(FormatXid("<unnamed window>", w))

(* C16: the resolved title is the UTF-8 name if _NET_WM_NAME is set, else  *)
(* the WM_NAME bytes decoded with a single-byte charset if WM_NAME is set, *)
(* else "<unnamed window> (XID: <id>)", also when the window has a         *)
(* _NET_WM_PID property.                                                   *)
C16_FallbackChain ==
    \A c \in ResolverCalls :
        (c.wobj # None /\ props[c.wobj.id][NET_WM_NAME] # Undecodable)
            => c.win_title = ChainTitle(c.wobj.id)

(* C17: when an active-window event finds the id that is already stored,   *)
(* the tracker changes nothing: the stored id, title and pid, the previous *)
(* snapshot and the event masks are as before, no request is made, and     *)
(* neither get_window_name nor handle_change is called.                    *)
C17_SameIdNoSideEffects ==
    [][(/\ PropertyEvent' /\ event'.atom = NET_ACTIVE_WINDOW
        /\ PyEq(PyInt(active), Cur.xid))
       => /\ dicts' = dicts /\ last_seen' = last_seen /\ prev_seen' = prev_seen
          /\ mask' = mask
          /\ CallsOf("request")' = {}
          /\ ResolverCalls' = {} /\ Notifications' = {}
          /\ raised' = "none"]_vars

\* an active-window event found the stored id on a live window whose title
\* is no longer the stored one, and nothing was resolved
C17_Witness ==
    /\ PropertyEvent /\ event.atom = NET_ACTIVE_WINDOW
    /\ \E c \in TrackerCalls : ~c.changed
    /\ Truthy(Cur.xid) /\ WindowExists(Cur.xid.v)
    /\ ~PyEq(_get_window_name_inner(Cur.xid.v), Cur.title)
    /\ ResolverCalls = {}

(* C18: in every state the existing windows on which the program has       *)
(* selected property-change events are none, or only the window whose id   *)
(* is stored: no window focused earlier stays subscribed.                  *)
C18_OnlyCurrentWindowSubscribed ==
    /\ mask \subseteq live
    /\ mask = {} \/ mask = {Cur.xid.v}

\* the focus moved between two windows that both still exist, and only the
\* new one is subscribed
C18_Witness ==
    /\ PropertyEvent /\ event.atom = NET_ACTIVE_WINDOW
    /\ \E c \in TrackerCalls :
          /\ c.changed /\ Truthy(c.stored) /\ Truthy(c.read)
          /\ WindowExists(c.stored.v) /\ WindowExists(c.read.v)
          /\ mask = {c.read.v}

\* the last step handled an event that handle_xevent ignores
IgnoredEvent ==
    \/ event.type = "MappingNotify"
    \/ PropertyEvent /\ event.atom \notin {NET_ACTIVE_WINDOW, NET_WM_NAME, WM_NAME}

(* C19: an event makes at most one call of handle_change, and makes one    *)
(* exactly when its accumulated changed flag is true; an event of another  *)
(* class or for another attribute leaves the current and the previous      *)
(* WindowState as they were and calls neither get_active_window,           *)
(* get_window_name nor handle_change.                                      *)
C19_NotifiedIffChanged ==
    [][event' # NoEvent =>
          /\ NumCallsOf("handle_change")' <= 1
          /\ Notifications' # {} <=> \E c \in CallsOf("if changed")' : c.changed
          /\ IgnoredEvent' =>
                /\ dicts' = dicts /\ last_seen' = last_seen
                /\ prev_seen' = prev_seen
                /\ TrackerCalls' = {} /\ ResolverCalls' = {}
                /\ Notifications' = {}]_vars

\* a name event whose flag was true made one call of handle_change
C19_Witness ==
    /\ PropertyEvent /\ event.atom \in {NET_WM_NAME, WM_NAME}
    /\ \E c \in CallsOf("if changed") : c.changed
    /\ NumCallsOf("handle_change") = 1

\* the last step was the priming or a handled event, and the loop goes on
ProgramStepDone ==
    /\ pc' = "loop"
    /\ event' # NoEvent \/ pc = "main"

(* C20: when the priming or a handled event leaves a new stored id that    *)
(* names a live window, with a stored title that is not None, the stored   *)
(* title is the title read from that window and the stored pid is the      *)
(* _NET_WM_PID read from that window, not values of the window focused     *)
(* before.                                                                 *)
C20_StoredTitleAndPidOfStoredWindow ==
    [][/\ ProgramStepDone
       /\ Cur'.xid # Cur.xid
       /\ Cur'.xid.t = "int" /\ WindowExists(Cur'.xid.v)
       /\ Cur'.title # None
       => LET w == Cur'.xid.v
              reply == get_full_property(w, WM_PID)
          IN  /\ PyEq(Cur'.title, _get_window_name_inner(w))
              /\ reply.k = "value" => PyEq(Cur'.pid, PyInt(reply.value.v[1]))]_vars

================================================================================
